---------------------------- MODULE Spec2Model ----------------------------
(***************************************************************************)
(* Model of the cache-aside proxy of the SOS community node (src/main.py): *)
(* proxy_request, forward_request, update_cache_from_origin, the endpoint  *)
(* functions that derive the upstream path, and paginate_data.             *)
(*                                                                         *)
(* Python str values are sequences of code points (UTF-8 decoding) or      *)
(* sequences of one-character strings (query parameters); bytes values are *)
(* sequences of integers 0..255.  A value held by Redis is modelled by the *)
(* JSON document it serialises (json.dumps / json.loads are the standard   *)
(* library's), or is marked unparseable, empty or absent.                  *)
(***************************************************************************)
EXTENDS Integers, Sequences, FiniteSets, TLC

(***************************************************************************)
(* Bounds of the model.                                                    *)
(***************************************************************************)
MaxRequests == 2
\* paginate_data on its own: the longest list, the last page and the
\* largest of the small limits it is called with.
MaxItems == 7
MaxPage == 4
MaxLimit == 3
\* The registration attempts counted one by one; further ones count as this.
MaxBeats == 3

Slots == {1, 2}

(***************************************************************************)
(* UTF-8: bytes.decode("utf-8") (strict), str.encode("utf-8") and the      *)
(* errors="replace" decoding behind httpx's resp.text.  The origin bodies  *)
(* of this model use one- and two-byte sequences only (bytes below 0xE0).  *)
(***************************************************************************)
IsAscii(b) == b < 128
IsLead2(b) == b >= 194 /\ b <= 223
IsCont(b) == b >= 128 /\ b <= 191
ReplacementChar == 65533

RECURSIVE Utf8Valid(_)
Utf8Valid(bs) ==
    IF bs = <<>> THEN TRUE
    ELSE IF IsAscii(bs[1]) THEN Utf8Valid(Tail(bs))
    ELSE IF IsLead2(bs[1]) /\ Len(bs) >= 2 /\ IsCont(bs[2])
         THEN Utf8Valid(Tail(Tail(bs)))
    ELSE FALSE

\* The code points of a byte sequence; an undecodable byte becomes U+FFFD.
\* For valid input this is bytes.decode("utf-8").
RECURSIVE Utf8Decode(_)
Utf8Decode(bs) ==
    IF bs = <<>> THEN <<>>
    ELSE IF IsAscii(bs[1]) THEN <<bs[1]>> \o Utf8Decode(Tail(bs))
    ELSE IF IsLead2(bs[1]) /\ Len(bs) >= 2 /\ IsCont(bs[2])
         THEN <<(bs[1] - 192) * 64 + (bs[2] - 128)>> \o Utf8Decode(Tail(Tail(bs)))
    ELSE <<ReplacementChar>> \o Utf8Decode(Tail(bs))

RECURSIVE Utf8Encode(_)
Utf8Encode(cs) ==
    IF cs = <<>> THEN <<>>
    ELSE IF cs[1] < 128 THEN <<cs[1]>> \o Utf8Encode(Tail(cs))
    ELSE IF cs[1] < 2048
         THEN <<192 + (cs[1] \div 64), 128 + (cs[1] % 64)>> \o Utf8Encode(Tail(cs))
    ELSE <<224 + (cs[1] \div 4096), 128 + ((cs[1] \div 64) % 64), 128 + (cs[1] % 64)>>
         \o Utf8Encode(Tail(cs))

(***************************************************************************)
(* JSON documents.                                                         *)
(***************************************************************************)
JNull == [t |-> "null"]
JTrue == [t |-> "true"]
JFalse == [t |-> "false"]
JNum(n) == [t |-> "num", n |-> n]
JStr(s) == [t |-> "str", s |-> s]
JList(items) == [t |-> "list", items |-> items]
JObj(f) == [t |-> "obj", f |-> f]

\* Python truthiness of a decoded JSON value.
Truthy(v) ==
    CASE v.t = "null" -> FALSE
      [] v.t = "true" -> TRUE
      [] v.t = "false" -> FALSE
      [] v.t = "num" -> v.n # 0
      [] v.t = "str" -> v.s # <<>>
      [] v.t = "list" -> v.items # <<>>
      [] v.t = "obj" -> DOMAIN v.f # {}


(***************************************************************************)
(* paginate_data (src/main.py 43-53).  items is a sequence; Python's slice *)
(* items[start:end] clamps both ends to the length of the list.            *)
(***************************************************************************)
Min(a, b) == IF a < b THEN a ELSE b

\* Mutant: the slice takes the element at its end index as well.
SliceThrough(items, start, end) ==
    IF start >= Len(items) THEN <<>>
    ELSE SubSeq(items, start + 1, Min(end + 1, Len(items)))

Slice(items, start, end) ==
    IF start >= Len(items) THEN <<>>
    ELSE SubSeq(items, start + 1, Min(end, Len(items)))

paginate_data(items, page, limit) ==
    LET total == Len(items)
        start == (page - 1) * limit
        end == start + limit
    IN  [data |-> Slice(items, start, end),
         total |-> total,
         page |-> page,
         limit |-> limit,
         total_pages |-> (total + limit - 1) \div limit]

(***************************************************************************)
(* The origin (the upstream registry) and forward_request (55-75).         *)
(* An origin call ends in a network-level failure (httpx.RequestError) or  *)
(* in a response with a status code and a body.                            *)
(***************************************************************************)
BodyEmpty == <<>>
\* "é": valid two-byte UTF-8, not JSON
BodyAccent == <<195, 169>>
\* "[]"
BodyList == <<91, 93>>
\* "{}"
BodyObj == <<123, 125>>
\* 0xC0 0x80: an overlong encoding, rejected by a strict UTF-8 decoder
BodyOverlong == <<192, 128>>
\* {"detail":"nf"}
BodyDetail == <<123, 34, 100, 101, 116, 97, 105, 108, 34, 58, 34, 110, 102, 34, 125>>

Bodies == {BodyEmpty, BodyAccent, BodyList, BodyObj, BodyOverlong, BodyDetail}
Statuses == {200, 201, 301, 404, 500}

NetError == [kind |-> "neterr"]
OriginResponse(status, body) == [kind |-> "resp", status |-> status, body |-> body]
\* The outcomes an origin call is given in this model: every status with a
\* valid and with an undecodable body, and each shape of error body.
OriginOutcomes ==
    {NetError}
        \cup {OriginResponse(s, b) : s \in Statuses, b \in {BodyAccent, BodyOverlong}}
        \cup {OriginResponse(200, BodyEmpty)}
        \cup {OriginResponse(404, b) : b \in Bodies}

(***************************************************************************)
(* resp.json() on an origin body: json.loads of the bytes.  The parser     *)
(* covers the JSON texts of Bodies: null, [], strings without escapes and  *)
(* objects whose members are such strings, without white space.            *)
(***************************************************************************)
RECURSIVE StringEnd(_, _)
\* The index of the quote closing a string whose content starts at j; 0 if none.
StringEnd(cs, j) ==
    IF j > Len(cs) THEN 0
    ELSE IF cs[j] = 34 THEN j
    ELSE IF cs[j] = 92 \/ cs[j] < 32 THEN 0
    ELSE StringEnd(cs, j + 1)

ParseString(cs, i) ==
    IF i <= Len(cs) /\ cs[i] = 34 /\ StringEnd(cs, i + 1) # 0
    THEN [ok |-> TRUE,
          s |-> SubSeq(cs, i + 1, StringEnd(cs, i + 1) - 1),
          next |-> StringEnd(cs, i + 1) + 1]
    ELSE [ok |-> FALSE]

RECURSIVE ParseMembers(_, _, _)
\* The members of an object from position i on; f holds the members read so
\* far (a repeated key keeps its last value, as a Python dict does).
ParseMembers(cs, i, f) ==
    LET k == ParseString(cs, i) IN
    IF ~k.ok \/ k.next > Len(cs) \/ cs[k.next] # 58 THEN [ok |-> FALSE]
    ELSE LET v == ParseString(cs, k.next + 1) IN
         IF ~v.ok \/ v.next > Len(cs) THEN [ok |-> FALSE]
         ELSE LET g == (k.s :> JStr(v.s)) @@ f IN
              IF cs[v.next] = 125
              THEN IF v.next = Len(cs) THEN [ok |-> TRUE, doc |-> JObj(g)]
                   ELSE [ok |-> FALSE]
              ELSE IF cs[v.next] = 44 THEN ParseMembers(cs, v.next + 1, g)
              ELSE [ok |-> FALSE]

ParseJson(cs) ==
    IF cs = <<110, 117, 108, 108>> THEN [ok |-> TRUE, doc |-> JNull]
    ELSE IF cs = <<91, 93>> THEN [ok |-> TRUE, doc |-> JList(<<>>)]
    ELSE IF cs = <<123, 125>> THEN [ok |-> TRUE, doc |-> JObj(<<>>)]
    ELSE IF cs # <<>> /\ cs[1] = 34
         THEN LET r == ParseString(cs, 1) IN
              IF r.ok /\ r.next = Len(cs) + 1 THEN [ok |-> TRUE, doc |-> JStr(r.s)]
              ELSE [ok |-> FALSE]
    ELSE IF cs # <<>> /\ cs[1] = 123 THEN ParseMembers(cs, 2, <<>>)
    ELSE [ok |-> FALSE]

RespJson(content) ==
    IF Utf8Valid(content) THEN ParseJson(Utf8Decode(content)) ELSE [ok |-> FALSE]

\* resp.text: the body decoded with errors="replace".
RespText(content) == Utf8Decode(content)

\* "detail"
DetailKey == <<100, 101, 116, 97, 105, 108>>

DetailJson(v) == [kind |-> "json", v |-> v]
DetailText(s) == [kind |-> "text", s |-> s]
DetailFixed(msg) == [kind |-> "fixed", msg |-> msg]
UpstreamDefault == DetailFixed("Error from upstream server")

\* Lines 64-67: the detail of the HTTPException raised for a status >= 400.
ErrorDetail(body) ==
    LET j == RespJson(body) IN
    IF j.ok /\ j.doc.t = "obj"
    THEN IF DetailKey \in DOMAIN j.doc.f THEN DetailJson(j.doc.f[DetailKey])
         ELSE UpstreamDefault
    ELSE IF RespText(body) # <<>> THEN DetailText(RespText(body))
         ELSE UpstreamDefault

Raise(status, detail) == [kind |-> "raise", status |-> status, detail |-> detail]
Return(body) == [kind |-> "return", body |-> body]

\* Mutant: every method is forwarded to the origin.
ForwardsAnyMethod(method) == TRUE

\* Whether forward_request reaches the network at all (line 58).
ForwardCallsOrigin(method) == method = "GET"

\* Mutant: only server errors are turned into an HTTPException.
IsServerError(status) == status >= 500

\* Line 63: the statuses forward_request turns into an HTTPException.
IsUpstreamError(status) == status >= 400

\* forward_request(method, path, raw=True) when the origin call ends in o.
forward_request(method, o) ==
    IF ~ForwardCallsOrigin(method)
    THEN Raise(405, DetailFixed("Method not allowed"))
    ELSE IF o.kind = "neterr"
    THEN Raise(503, DetailFixed("Upstream server unavailable"))
    ELSE IF IsUpstreamError(o.status)
    THEN Raise(o.status, ErrorDetail(o.body))
    ELSE Return(o.body)

(***************************************************************************)
(* Query parameters, the validation layer (src/models.py) and the upstream *)
(* path each endpoint builds (src/main.py 155-158, 172-173, 187-188,       *)
(* 202-203).  A SafeString is a sequence of one-character strings; an      *)
(* Optional parameter is <<>> (None) or <<v>>.                             *)
(***************************************************************************)
\* a-z and A-Z; the Vietnamese letters of the pattern are left out, no
\* parameter of this model uses one.
Letters ==
    {"a", "b", "c", "d", "e", "f", "g", "h", "i", "j", "k", "l", "m", "n", "o",
     "p", "q", "r", "s", "t", "u", "v", "w", "x", "y", "z",
     "A", "B", "C", "D", "E", "F", "G", "H", "I", "J", "K", "L", "M", "N", "O",
     "P", "Q", "R", "S", "T", "U", "V", "W", "X", "Y", "Z"}
Digits == {"0", "1", "2", "3", "4", "5", "6", "7", "8", "9"}
\* The punctuation SAFE_STRING_REGEX admits, and the space.
Punctuation ==
    {" ", ".", ",", "-", "?", "!", ":", ";", "'", "\"", "(", ")", "[", "]",
     "{", "}", "@", "#", "$", "%", "&", "*", "+", "=", "_", "/", "\\"}
SafeChars == Letters \cup Digits \cup Punctuation

validate_safe_chars(v) == v = <<>> \/ \A i \in 1..Len(v) : v[i] \in SafeChars

PyNone == <<>>
Some(v) == <<v>>
\* `if status:` on an Optional[str]: neither None nor the empty string.
Given(opt) == opt # PyNone /\ opt[1] # <<>>

RECURSIVE Str(_)
\* The text of a sequence of characters, as an f-string interpolates it.
Str(cs) == IF cs = <<>> THEN "" ELSE Head(cs) \o Str(Tail(cs))

Opt(name, opt) == IF Given(opt) THEN "&" \o name \o "=" \o Str(opt[1]) ELSE ""

BasePath(endpoint, q) ==
    endpoint \o "?page=" \o ToString(q.page) \o "&limit=" \o ToString(q.limit)
        \o "&sort_by=" \o Str(q.sort_by) \o "&order=" \o Str(q.order)

get_requests(q) ==
    BasePath("/api/requests", q) \o Opt("status", q.status)
        \o Opt("search", q.search) \o Opt("region", q.region)

get_news(q) == BasePath("/api/news", q) \o Opt("search", q.search)

get_phones(q) == BasePath("/api/phones", q) \o Opt("search", q.search)

get_rescue_points(q) == BasePath("/api/rescue_points", q) \o Opt("search", q.search)

Endpoints == {"requests", "news", "phones", "rescue_points"}

EndpointPath(e, q) ==
    CASE e = "requests" -> get_requests(q)
      [] e = "news" -> get_news(q)
      [] e = "phones" -> get_phones(q)
      [] e = "rescue_points" -> get_rescue_points(q)

\* Mutant: the key leaves the path out.
CacheKeyOfMethod(method, path) == method

\* proxy_request, line 101.
CacheKey(method, path) == method \o ":" \o path

\* PageNumber, PageLimit and SafeString of src/models.py.
Admitted(q) ==
    /\ q.page >= 1
    /\ q.limit >= 1 /\ q.limit <= 25
    /\ validate_safe_chars(q.sort_by) /\ validate_safe_chars(q.order)
    /\ \A o \in {q.status, q.search, q.region} : o = PyNone \/ validate_safe_chars(o[1])

(***************************************************************************)
(* The cache store (Redis, src/database.py) and the envelope codec.        *)
(* redis_client.get gives None for a missing key (Absent) or the stored    *)
(* string: empty, not parseable by json.loads (Garbage), or the            *)
(* serialisation of a JSON document.                                       *)
(***************************************************************************)
Absent == [kind |-> "absent"]
EmptyText == [kind |-> "empty"]
Garbage == [kind |-> "garbage"]
\* Mutant: the serialised text is lost and the empty string is written.
json_dumps_blank(doc) == EmptyText

json_dumps(doc) == [kind |-> "json", doc |-> doc]

\* Mutant: a text that does not parse is read as null instead of raising.
json_loads_lenient(text) ==
    IF text.kind = "json" THEN [ok |-> TRUE, doc |-> text.doc]
    ELSE [ok |-> TRUE, doc |-> JNull]

json_loads(text) ==
    IF text.kind = "json" THEN [ok |-> TRUE, doc |-> text.doc] ELSE [ok |-> FALSE]

\* `if cached:` (line 106): neither None nor the empty string.
Cached(text) == text.kind \notin {"absent", "empty"}

\* Mutant: the entry is written without its is_raw member.
cache_entry_unmarked(payload_str, t) ==
    JObj([payload |-> JStr(payload_str), timestamp |-> JNum(t)])

\* Lines 90-94 and 131-135.
cache_entry(payload_str, t) ==
    JObj([payload |-> JStr(payload_str), is_raw |-> JTrue, timestamp |-> JNum(t)])

IsEnvelope(doc) == doc.t = "obj" /\ "payload" \in DOMAIN doc.f

(***************************************************************************)
(* What proxy_request hands back: a starlette Response with its content,   *)
(* a value FastAPI serialises, or an HTTPException.                        *)
(***************************************************************************)
NoResp == [kind |-> "none"]
Response(content) == [kind |-> "Response", content |-> content]
Data(value) == [kind |-> "data", value |-> value]
HTTPException(status, detail) ==
    [kind |-> "HTTPException", status_code |-> status, detail |-> detail]

\* Response(content=data): None renders as b"", a str is encoded as UTF-8,
\* any other decoded JSON value has no encode() and raises.
Renders(data) == data.t \in {"str", "null"}
Render(data) == IF data.t = "str" THEN Utf8Encode(data.s) ELSE <<>>

Fall == [ret |-> FALSE]
Ret(resp) == [ret |-> TRUE, resp |-> resp]

\* Lines 108-122: the outcome of the hit branch for a non-empty stored text;
\* Fall is the except branch, which goes on to the origin fetch.
ServeCached(cached, page, limit) ==
    LET j == json_loads(cached) IN
    IF ~j.ok THEN Fall
    ELSE IF IsEnvelope(j.doc)
    THEN LET data == j.doc.f.payload
             is_raw == IF "is_raw" \in DOMAIN j.doc.f THEN j.doc.f.is_raw ELSE JFalse
         IN  IF Truthy(is_raw)
             THEN IF Renders(data) THEN Ret(Response(Render(data))) ELSE Fall
             ELSE Ret(Data(data))
    ELSE IF j.doc.t = "list"
    THEN Ret(Data([t |-> "page", p |-> paginate_data(j.doc.items, page, limit)]))
    ELSE Ret(Data(j.doc))

(***************************************************************************)
(* State.                                                                  *)
(*   store   the Redis keys of the cache and the text each holds           *)
(*   prov    for each key, the origin response behind the engine's last    *)
(*           write of it (history)                                         *)
(*   rq      the requests in flight, one per slot: the position of         *)
(*           proxy_request, its locals, its response, and the background   *)
(*           task it added to background_tasks                             *)
(*   issued  the number of requests started so far                         *)
(*   kd      the inputs and results of the key derivation                  *)
(*   pg      a call of paginate_data: its arguments and what it returned   *)
(*   hb      background_self_registration: its position and history        *)
(*   env     what the origin and the store do from some point on           *)
(***************************************************************************)
VARIABLES store, prov, rq, issued, kd, pg, hb, env

vars == <<store, prov, rq, issued, kd, pg, hb, env>>

Methods == {"GET", "POST"}

\* GET /api/news?page=<page>&limit=2 with the endpoint's defaults.
\* A request record: pc is the position of proxy_request (get, forward and
\* set are its awaits), bg that of the task it added to background_tasks.
\* method .. data_bytes are the locals of the code; the rest is history:
\* origin and bgorigin are the outcomes of the origin calls of the request
\* and of its refresh, cached the text redis_client.get returned, gets,
\* sets, calls, added and bgcalls count the store reads, store writes,
\* synchronous origin calls, add_task calls and refresh origin calls, and
\* bgend tells how the refresh ended.
NoOrigin == [kind |-> "none"]

NewsQuery(page) ==
    [page |-> page, limit |-> 2,
     sort_by |-> <<"t", "i", "m", "e", "s", "t", "a", "m", "p">>,
     order |-> <<"d", "e", "s", "c">>,
     status |-> PyNone, search |-> PyNone, region |-> PyNone]

Queries == {NewsQuery(1), NewsQuery(2)}
Paths == {get_news(q) : q \in Queries}
Keys == {CacheKey("GET", p) : p \in Paths}

\* prov[k]: the origin response whose body the engine last wrote under k
\* (its status and body) and the path it was fetched for; NoProv while the
\* engine has not written k.
NoProv == [by |-> "none"]
WrittenFrom(o, path) == [status |-> o.status, body |-> o.body, path |-> path]

IdleReq ==
    [pc |-> "idle", method |-> "", path |-> "", page |-> 0, limit |-> 0,
     cache_key |-> "", result_raw |-> <<>>, origin |-> NoOrigin, resp |-> NoResp,
     bg |-> "none", data_bytes |-> <<>>, bgorigin |-> NoOrigin,
     cached |-> Absent, gets |-> 0, sets |-> 0, calls |-> 0, added |-> 0,
     getErr |-> FALSE, setErr |-> FALSE, bgcalls |-> 0, bgend |-> "none"]

\* The texts a key may hold when the process starts: Redis outlives the
\* process and is written by other versions and tools as well.
StartTexts ==
    {Absent, EmptyText, Garbage,
     json_dumps(JNull),
     json_dumps(JList(<<JNum(1), JNum(2), JNum(3)>>)),
     json_dumps(JObj([timestamp |-> JNum(0)])),
     json_dumps(cache_entry(Utf8Decode(BodyList), 0)),
     json_dumps(JObj([payload |-> JStr(Utf8Decode(BodyList))])),
     json_dumps(JObj([payload |-> JNum(7), is_raw |-> JTrue]))}

NoKd == [pc |-> "none"]
\* No call of paginate_data, no registration task, no settled environment.
NoPg == [pc |-> "none"]
NoHb == [pc |-> "none"]
NoEnv == [stable |-> FALSE]

\* The values time.time() takes while the process runs; the entries found
\* at start carry an earlier one.
Times == {1}

Init ==
    /\ store \in [Keys -> StartTexts]
    /\ \E k \in Keys : store[k] = Absent
    /\ prov = [k \in Keys |-> NoProv]
    /\ rq = [i \in Slots |-> IdleReq]
    /\ issued = 0
    /\ kd = NoKd
    /\ pg = NoPg /\ hb = NoHb /\ env = NoEnv

(***************************************************************************)
(* proxy_request (100-140), one action per suspension point.               *)
(***************************************************************************)
\* A call of proxy_request: lines 101 and 103.
StartRequest(i) ==
    /\ rq[i].pc = "idle"
    /\ \A j \in Slots : j < i => rq[j].pc # "idle"
    /\ issued < MaxRequests
    /\ \E m \in Methods, q \in Queries :
         LET path == get_news(q) IN
         rq' = [rq EXCEPT ![i] =
                  [IdleReq EXCEPT !.pc = IF m = "GET" THEN "get" ELSE "forward",
                                  !.method = m, !.path = path,
                                  !.page = q.page, !.limit = q.limit,
                                  !.cache_key = CacheKey(m, path)]]
    /\ issued' = issued + 1
    /\ UNCHANGED <<store, prov, kd, pg, hb, env>>

\* Mutant: the failure of redis_client.get leaves proxy_request.
AfterGetRaisesPropagates(r) ==
    [r EXCEPT !.pc = "done", !.gets = @ + 1, !.getErr = TRUE,
              !.resp = HTTPException(500, DetailFixed("Internal Server Error"))]

\* Lines 123-124: redis_client.get raised.
AfterGetRaises(r) ==
    [r EXCEPT !.pc = "forward", !.gets = @ + 1, !.getErr = TRUE]

\* Mutant: the hit branch schedules the refresh and goes on to the origin
\* fetch instead of returning.
AfterGetRefetches(r, text) ==
    IF ~Cached(text) THEN [r EXCEPT !.pc = "forward", !.gets = @ + 1, !.cached = text]
    ELSE [r EXCEPT !.pc = "forward", !.gets = @ + 1, !.cached = text,
                   !.bg = "added", !.added = @ + 1]

\* Lines 105-122: redis_client.get returned text.
AfterGet(r, text) ==
    IF ~Cached(text) THEN [r EXCEPT !.pc = "forward", !.gets = @ + 1, !.cached = text]
    ELSE LET h == ServeCached(text, r.page, r.limit)
             s == [r EXCEPT !.gets = @ + 1, !.cached = text,
                            !.bg = "added", !.added = @ + 1]
         IN  IF h.ret THEN [s EXCEPT !.pc = "done", !.resp = h.resp]
             ELSE [s EXCEPT !.pc = "forward"]

CacheGet(i) ==
    /\ rq[i].pc = "get"
    /\ \/ rq' = [rq EXCEPT ![i] = AfterGetRaises(rq[i])]
       \/ rq' = [rq EXCEPT ![i] = AfterGet(rq[i], store[rq[i].cache_key])]
    /\ UNCHANGED <<store, prov, issued, kd, pg, hb, env>>

\* Mutant: the body is decoded with errors="replace" and always stored.
MissStoresAny(body) == TRUE

\* Lines 129-130: the miss path goes on to redis_client.set unless decoding
\* the body raises.
MissStores(body) == Utf8Valid(body)

\* Mutant: the body of an error response is kept and stored like any other.
AfterForwardKeepsErrors(r, f) ==
    IF f.kind = "raise" /\ r.origin.kind = "resp" /\ r.method = "GET"
    THEN [r EXCEPT !.pc = "set", !.result_raw = r.origin.body]
    ELSE IF f.kind = "raise"
    THEN [r EXCEPT !.pc = "done",
                   !.resp = HTTPException(f.status, f.detail),
                   !.bg = IF @ = "added" THEN "dropped" ELSE @]
    ELSE IF r.method = "GET" /\ MissStores(f.body)
    THEN [r EXCEPT !.pc = "set", !.result_raw = f.body]
    ELSE [r EXCEPT !.pc = "done", !.result_raw = f.body,
                   !.resp = Response(f.body)]

\* Line 126 and lines 128-140 up to the await of redis_client.set.  An
\* HTTPException leaves the endpoint, and the tasks added to
\* background_tasks are not run.
AfterForward(r, f) ==
    IF f.kind = "raise"
    THEN [r EXCEPT !.pc = "done",
                   !.resp = HTTPException(f.status, f.detail),
                   !.bg = IF @ = "added" THEN "dropped" ELSE @]
    ELSE IF r.method = "GET" /\ MissStores(f.body)
    THEN [r EXCEPT !.pc = "set", !.result_raw = f.body]
    ELSE [r EXCEPT !.pc = "done", !.result_raw = f.body,
                   !.resp = Response(f.body)]

Forward(i) ==
    /\ rq[i].pc = "forward"
    /\ IF ForwardCallsOrigin(rq[i].method)
       THEN \E o \in OriginOutcomes :
              rq' = [rq EXCEPT ![i] =
                        AfterForward([rq[i] EXCEPT !.calls = @ + 1, !.origin = o],
                                     forward_request(rq[i].method, o))]
       ELSE rq' = [rq EXCEPT ![i] =
                     AfterForward(rq[i], forward_request(rq[i].method, NoOrigin))]
    /\ UNCHANGED <<store, prov, issued, kd, pg, hb, env>>

\* Lines 137-140: redis_client.set raised.
AfterSetRaises(r) ==
    [r EXCEPT !.pc = "done", !.sets = @ + 1, !.setErr = TRUE,
              !.resp = Response(r.result_raw)]

\* Lines 136 and 140.
AfterSet(r) ==
    [r EXCEPT !.pc = "done", !.sets = @ + 1, !.resp = Response(r.result_raw)]

CacheSet(i) ==
    /\ rq[i].pc = "set"
    /\ \/ /\ rq' = [rq EXCEPT ![i] = AfterSetRaises(rq[i])]
          /\ UNCHANGED <<store, prov>>
       \/ /\ rq' = [rq EXCEPT ![i] = AfterSet(rq[i])]
          /\ \E t \in Times :
               store' = [store EXCEPT ![rq[i].cache_key] =
                           json_dumps(cache_entry(Utf8Decode(rq[i].result_raw), t))]
          /\ prov' = [prov EXCEPT ![rq[i].cache_key] =
                        WrittenFrom(rq[i].origin, rq[i].path)]
    /\ UNCHANGED <<issued, kd, pg, hb, env>>

(***************************************************************************)
(* update_cache_from_origin (77-98), run by the framework once the         *)
(* response of the request that added it has been sent.                    *)
(***************************************************************************)
\* Mutant: the refresh stores the body of any response.
RefreshStoresAny(status) == TRUE

\* Mutant: the refresh fetches and never stores.
RefreshStoresNever(status) == FALSE

\* Line 86.
RefreshStores(status) == status = 200

\* The task may start: the response it was added to has been produced.
RefreshMayStart(r) == r.bg = "added" /\ r.pc = "done"

\* Lines 82-88 and 97-98 for the origin outcome o.
AfterRefreshFetch(r, o) ==
    LET s == [r EXCEPT !.bgcalls = @ + 1, !.bgorigin = o] IN
    IF o.kind = "neterr" THEN [s EXCEPT !.bg = "done", !.bgend = "failed"]
    ELSE IF ~RefreshStores(o.status)
    THEN [s EXCEPT !.bg = "done", !.bgend = "skipped"]
    ELSE IF ~Utf8Valid(o.body)
    THEN [s EXCEPT !.bg = "done", !.bgend = "failed"]
    ELSE [s EXCEPT !.bg = "set", !.data_bytes = o.body]

RefreshFetch(i) ==
    /\ RefreshMayStart(rq[i])
    /\ \E o \in OriginOutcomes : rq' = [rq EXCEPT ![i] = AfterRefreshFetch(rq[i], o)]
    /\ UNCHANGED <<store, prov, issued, kd, pg, hb, env>>

RefreshSet(i) ==
    /\ rq[i].bg = "set"
    /\ \/ /\ rq' = [rq EXCEPT ![i] = [@ EXCEPT !.bg = "done", !.bgend = "failed"]]
          /\ UNCHANGED <<store, prov>>
       \/ /\ rq' = [rq EXCEPT ![i] = [@ EXCEPT !.bg = "done", !.bgend = "stored"]]
          /\ \E t \in Times :
               store' = [store EXCEPT ![rq[i].cache_key] =
                           json_dumps(cache_entry(Utf8Decode(rq[i].data_bytes), t))]
          /\ prov' = [prov EXCEPT ![rq[i].cache_key] =
                        WrittenFrom(rq[i].bgorigin, rq[i].path)]
    /\ UNCHANGED <<issued, kd, pg, hb, env>>

\* The request and its background task are over; the slot serves the next.
\* A slot is released before anything else happens: a request that is
\* over takes no further step, so the order changes no behaviour.
Over(r) == r.pc = "done" /\ r.bg \in {"none", "done", "dropped"}
Released == \A i \in Slots : ~Over(rq[i])

Finish(i) ==
    /\ Over(rq[i])
    /\ rq' = [rq EXCEPT ![i] = IdleReq]
    /\ UNCHANGED <<store, prov, issued, kd, pg, hb, env>>

Next ==
    \/ Released /\ \E i \in Slots : StartRequest(i)
    \/ Released /\ \E i \in Slots : CacheGet(i)
    \/ Released /\ \E i \in Slots : Forward(i)
    \/ Released /\ \E i \in Slots : CacheSet(i)
    \/ Released /\ \E i \in Slots : RefreshFetch(i)
    \/ Released /\ \E i \in Slots : RefreshSet(i)
    \/ \E i \in Slots : Finish(i)

Spec == Init /\ [][Next]_vars

\* The engine over a store that starts with no key at all.
InitEmpty ==
    /\ store = [k \in Keys |-> Absent]
    /\ prov = [k \in Keys |-> NoProv]
    /\ rq = [i \in Slots |-> IdleReq]
    /\ issued = 0
    /\ kd = NoKd
    /\ pg = NoPg /\ hb = NoHb /\ env = NoEnv

SpecEmpty == InitEmpty /\ [][Next]_vars

(***************************************************************************)
(* Key derivation on its own: two calls of one endpoint with admitted      *)
(* query parameters, and the cache key proxy_request derives for each.     *)
(***************************************************************************)
\* "<" is not admitted: the validation layer rejects the call.
SortValues == {<<"d", "e", "f", "a", "u", "l", "t">>, <<"a">>, <<"<">>}
OrderValues ==
    {<<"d", "e", "s", "c">>, <<"a", "s", "c">>,
     <<"d", "e", "s", "c", "&", "s", "e", "a", "r", "c", "h", "=", "x">>}
OptValues == {PyNone, Some(<<"x">>), Some(<<"y">>)}

KeyQueries ==
    {q \in [page : {1, 2}, limit : {1, 12}, sort_by : SortValues,
            order : OrderValues,
            status : {PyNone, Some(<<"x">>)}, search : OptValues,
            region : {PyNone}] : Admitted(q)}

\* The query parameters each endpoint declares.
Params(e) ==
    IF e = "requests"
    THEN {"page", "limit", "sort_by", "order", "status", "search", "region"}
    ELSE {"page", "limit", "sort_by", "order", "search"}

InitKey ==
    /\ store = [k \in Keys |-> Absent]
    /\ prov = [k \in Keys |-> NoProv]
    /\ rq = [i \in Slots |-> IdleReq]
    /\ issued = 0
    /\ kd = NoKd
    /\ pg = NoPg /\ hb = NoHb /\ env = NoEnv

\* Two calls of endpoint e arrive.
KeyCalls ==
    /\ kd.pc = "none"
    /\ \E e \in Endpoints, a \in KeyQueries, b \in KeyQueries :
         kd' = [pc |-> "called", e |-> e, a |-> a, b |-> b]
    /\ UNCHANGED <<store, prov, rq, issued, pg, hb, env>>

\* Each endpoint builds its path and proxy_request derives the key.
KeyDerive ==
    /\ kd.pc = "called"
    /\ kd' = [pc |-> "derived", e |-> kd.e, a |-> kd.a, b |-> kd.b,
              ka |-> CacheKey("GET", EndpointPath(kd.e, kd.a)),
              kb |-> CacheKey("GET", EndpointPath(kd.e, kd.b))]
    /\ UNCHANGED <<store, prov, rq, issued, pg, hb, env>>

NextKey == KeyCalls \/ KeyDerive

SpecKey == InitKey /\ [][NextKey]_vars

(***************************************************************************)
(* paginate_data on its own: a call with a list, a page and a limit the    *)
(* validation layer admits (PageNumber, PageLimit of src/models.py).       *)
(***************************************************************************)
\* PageLimit: Field(ge=1, le=25).
PageLimitMax == 25

\* The lists [1, .., n] and the lists of n equal items.
ItemLists ==
    {[j \in 1..n |-> JNum(j)] : n \in 0..MaxItems}
        \cup {[j \in 1..n |-> JNull] : n \in 1..MaxItems}
Pages == 1..MaxPage
Limits == (1..MaxLimit) \cup {PageLimitMax}

InitPage ==
    /\ store = [k \in Keys |-> Absent]
    /\ prov = [k \in Keys |-> NoProv]
    /\ rq = [i \in Slots |-> IdleReq]
    /\ issued = 0
    /\ kd = NoKd /\ hb = NoHb /\ env = NoEnv
    /\ \E items \in ItemLists, page \in Pages, limit \in Limits :
          pg = [pc |-> "called", items |-> items, page |-> page, limit |-> limit]

\* The call returns: result is the dict of lines 47-53, items the list the
\* caller still holds (the slice of line 48 builds a new list), given the
\* list as it was passed.
Paginate ==
    /\ pg.pc = "called"
    /\ pg' = [pc |-> "returned", items |-> pg.items, page |-> pg.page,
              limit |-> pg.limit, given |-> pg.items,
              result |-> paginate_data(pg.items, pg.page, pg.limit)]
    /\ UNCHANGED <<store, prov, rq, issued, kd, hb, env>>

NextPage == Paginate

SpecPage == InitPage /\ [][NextPage]_vars

(***************************************************************************)
(* background_self_registration (250-277), the task startup_event creates. *)
(* hb.pc is the await the loop is at: "post" (line 267) or "sleep" (line   *)
(* 277); posts counts the POSTs made, last is what the last attempt        *)
(* logged, delay the argument of the last call of asyncio.sleep.           *)
(***************************************************************************)
\* Line 277: asyncio.sleep(30).
Period == 30

\* What client.post ends in: httpx raises, or the registry answers; of the
\* answers with status 200, one has a JSON body and one has not.
BeatOutcomes ==
    {NetError}
        \cup {OriginResponse(s, BodyObj) : s \in {200, 404, 500}}
        \cup {OriginResponse(200, BodyAccent)}

\* Mutant: the except clause is outside the loop, an error ends the task.
AfterRegisterGivesUp(h, o) ==
    IF o.kind = "neterr" \/ (o.status = 200 /\ ~RespJson(o.body).ok)
    THEN [h EXCEPT !.pc = "exit", !.posts = Min(@ + 1, MaxBeats), !.last = "raised"]
    ELSE [h EXCEPT !.pc = "sleep", !.posts = Min(@ + 1, MaxBeats),
                   !.last = IF o.status = 200 THEN "success" ELSE "status",
                   !.delay = Period]

\* Lines 266-277 for the outcome o of client.post, up to the await of
\* asyncio.sleep: resp.json() of line 272 raises on a body that is no JSON.
AfterRegister(h, o) ==
    LET logged ==
            IF o.kind = "neterr" THEN "raised"
            ELSE IF o.status = 200
            THEN IF RespJson(o.body).ok THEN "success" ELSE "raised"
            ELSE "status"
    IN  [h EXCEPT !.pc = "sleep", !.posts = Min(@ + 1, MaxBeats),
                  !.last = logged, !.delay = Period]

InitBeat ==
    /\ store \in [Keys -> StartTexts]
    /\ \E k \in Keys : store[k] = Absent
    /\ prov = [k \in Keys |-> NoProv]
    /\ rq = [i \in Slots |-> IdleReq]
    /\ issued = 0
    /\ kd = NoKd /\ pg = NoPg /\ env = NoEnv
    /\ hb = [pc |-> "post", posts |-> 0, last |-> "none", delay |-> 0]

\* One registration attempt: lines 253-276.
Register ==
    /\ hb.pc = "post"
    /\ \E o \in BeatOutcomes : hb' = AfterRegister(hb, o)
    /\ UNCHANGED <<store, prov, rq, issued, kd, pg, env>>

\* asyncio.sleep(30) returns and the loop starts over.
Sleep ==
    /\ hb.pc = "sleep"
    /\ hb' = [hb EXCEPT !.pc = "post"]
    /\ UNCHANGED <<store, prov, rq, issued, kd, pg, env>>

NextBeat == Register \/ Sleep

\* The event loop runs a task whose await has completed: client.post ends
\* (its client has timeout=10.0) and the timer of asyncio.sleep fires.
SpecBeat == InitBeat /\ [][NextBeat]_vars /\ WF_vars(Register) /\ WF_vars(Sleep)

(***************************************************************************)
(* The engine from the moment on at which the origin and the store settle: *)
(* requests for one key keep arriving, one per free slot; until the        *)
(* environment settles the origin answers as it likes and the store may    *)
(* fail, afterwards the origin answers every GET of the path with 200 and  *)
(* the body env.body, and redis_client.get and set do not raise.           *)
(***************************************************************************)
FreshPath == get_news(NewsQuery(1))
FreshKey == CacheKey("GET", FreshPath)

\* The bodies the origin may settle on: one that decodes as UTF-8 and one
\* that does not.
FreshBodies == {BodyAccent, BodyOverlong}
\* What the origin answers before it settles.
PastOutcomes ==
    {NetError, OriginResponse(200, BodyEmpty), OriginResponse(500, BodyAccent)}
\* What the key holds when the process starts.
FreshStart ==
    {Absent, Garbage, json_dumps(JNull),
     json_dumps(cache_entry(Utf8Decode(BodyList), 0))}

OriginNow == IF env.stable THEN {OriginResponse(200, env.body)} ELSE PastOutcomes

InitFresh ==
    /\ \E text \in FreshStart :
          store = [k \in Keys |-> IF k = FreshKey THEN text ELSE Absent]
    /\ prov = [k \in Keys |-> NoProv]
    /\ rq = [i \in Slots |-> IdleReq]
    /\ issued = 0
    /\ kd = NoKd /\ pg = NoPg /\ hb = NoHb
    /\ \E body \in FreshBodies : env = [stable |-> FALSE, body |-> body]

\* From now on the origin and the store behave.
Settle ==
    /\ ~env.stable
    /\ env' = [env EXCEPT !.stable = TRUE]
    /\ UNCHANGED <<store, prov, rq, issued, kd, pg, hb>>

\* The next GET for the key arrives (get_news, lines 172-174, and lines
\* 101 and 103 of proxy_request).
Arrive(i) ==
    /\ rq[i].pc = "idle"
    /\ \A j \in Slots : j < i => rq[j].pc # "idle"
    /\ rq' = [rq EXCEPT ![i] =
                [IdleReq EXCEPT !.pc = "get", !.method = "GET",
                                !.path = FreshPath,
                                !.page = NewsQuery(1).page,
                                !.limit = NewsQuery(1).limit,
                                !.cache_key = FreshKey]]
    /\ UNCHANGED <<store, prov, issued, kd, pg, hb, env>>

FreshGet(i) == CacheGet(i) /\ (env.stable => ~rq'[i].getErr)
FreshForward(i) == Forward(i) /\ rq'[i].origin \in OriginNow
FreshSet(i) == CacheSet(i) /\ (env.stable => ~rq'[i].setErr)
FreshRefreshFetch(i) == RefreshFetch(i) /\ rq'[i].bgorigin \in OriginNow
FreshRefreshSet(i) == RefreshSet(i) /\ (env.stable => rq'[i].bgend = "stored")

NextFresh ==
    \/ Settle
    \/ \E i \in Slots : Arrive(i)
    \/ \E i \in Slots : FreshGet(i)
    \/ \E i \in Slots : FreshForward(i)
    \/ \E i \in Slots : FreshSet(i)
    \/ \E i \in Slots : FreshRefreshFetch(i)
    \/ \E i \in Slots : FreshRefreshSet(i)
    \/ \E i \in Slots : Finish(i)

\* The event loop runs every coroutine and background task whose await has
\* completed, the calls of the store and of the origin end (the clients
\* have timeouts), and requests keep arriving.
FairFresh ==
    /\ WF_vars(\E i \in Slots : Arrive(i))
    /\ \A i \in Slots :
          /\ WF_vars(FreshGet(i)) /\ WF_vars(FreshForward(i))
          /\ WF_vars(FreshSet(i)) /\ WF_vars(FreshRefreshFetch(i))
          /\ WF_vars(FreshRefreshSet(i)) /\ WF_vars(Finish(i))

SpecFresh == InitFresh /\ [][NextFresh]_vars /\ FairFresh

(***************************************************************************)
(* Properties.                                                             *)
(***************************************************************************)
\* The text is an envelope whose payload is a string.
StringEnvelope(text) ==
    text.kind = "json" /\ IsEnvelope(text.doc) /\ text.doc.f.payload.t = "str"
EnvelopeRaw(text) == "is_raw" \in DOMAIN text.doc.f /\ Truthy(text.doc.f.is_raw)
\* The text is what the engine writes for body: a raw envelope of its text.
EnvelopeOf(text, body) ==
    StringEnvelope(text) /\ EnvelopeRaw(text)
        /\ Utf8Encode(text.doc.f.payload.s) = body

\* redis_client.get answered request r with a string-payload envelope.
HitOn(r) == r.gets = 1 /\ ~r.getErr /\ StringEnvelope(r.cached)
\* redis_client.get answered request r that the key has no entry.
MissFromEmpty(r) == r.gets = 1 /\ ~r.getErr /\ r.cached = Absent
ReadGarbage(r) == r.gets = 1 /\ ~r.getErr /\ r.cached = Garbage
FetchSucceeded(r) ==
    r.calls = 1 /\ r.origin.kind = "resp" /\ r.origin.status < 400
\* What the origin's answer to request r amounts to for its caller.
OriginResult(r) ==
    IF r.origin.kind = "resp" /\ r.origin.status < 400
    THEN Response(r.origin.body)
    ELSE IF r.origin.kind = "resp"
    THEN HTTPException(r.origin.status, ErrorDetail(r.origin.body))
    ELSE HTTPException(503, DetailFixed("Upstream server unavailable"))

\* C1 (hit path): a GET request that reads a string-payload envelope is
\* answered at once with exactly that payload (the bytes of its text when
\* the envelope is raw), has made no synchronous origin call, has added
\* exactly one refresh, whose origin call comes after the response; and the
\* response is the same whatever the refresh does afterwards.
C1_Hit ==
    \A i \in Slots :
        LET r == rq[i] IN
        HitOn(r) =>
            /\ r.pc = "done"
            /\ r.resp = IF EnvelopeRaw(r.cached)
                        THEN Response(Utf8Encode(r.cached.doc.f.payload.s))
                        ELSE Data(r.cached.doc.f.payload)
            /\ r.calls = 0 /\ r.sets = 0
            /\ r.added = 1 /\ r.bgcalls <= 1
            /\ r.bg \in {"added", "set", "done"}

C1_Step ==
    \A i \in Slots :
        /\ rq'[i].bgcalls > rq[i].bgcalls => rq[i].resp # NoResp
        /\ (rq[i].resp # NoResp /\ rq'[i].pc # "idle") => rq'[i].resp = rq[i].resp

\* C1: the hit path holds in every state, and no step lets a refresh call
\* the origin before the response exists or changes a response once made.
C1_HitPath == [](C1_Hit) /\ [][C1_Step]_vars

\* A hit whose refresh has called the origin and ended.
C1_Witness ==
    \E i \in Slots :
        HitOn(rq[i]) /\ rq[i].resp.kind = "Response"
            /\ rq[i].bgcalls = 1 /\ rq[i].bg = "done"

\* C2 as stated (miss populates cache): a GET request that found no entry
\* and whose origin fetch succeeded returns the origin body and leaves an
\* entry from which the next request is served that same body.
ServesBody(text, r) ==
    Cached(text) /\ ServeCached(text, r.page, r.limit) = Ret(Response(r.origin.body))

C3_Provenance ==
    \A k \in Keys :
        prov[k] # NoProv => (prov[k].status >= 200 /\ prov[k].status <= 299)

\* C4 (corruption degrades to miss): a GET request that reads unparseable
\* text goes on as one that reads no entry: it calls the origin once and
\* its outcome is the origin's (the body, or the origin's failure); when
\* its store write succeeds the key holds a valid envelope of that body.
MissCore(r) ==
    [pc |-> r.pc, resp |-> r.resp, result_raw |-> r.result_raw,
     gets |-> r.gets, sets |-> r.sets, calls |-> r.calls]

C4_Garbage ==
    \A i \in Slots :
        LET r == rq[i] IN
        /\ r.pc = "get" =>
              MissCore(AfterGet(r, Garbage)) = MissCore(AfterGet(r, Absent))
        /\ ReadGarbage(r) => r.pc \in {"forward", "set", "done"}
        /\ (ReadGarbage(r) /\ r.pc = "done") =>
              r.calls = 1 /\ r.resp = OriginResult(r)

C4_Step ==
    \A i \in Slots :
        (ReadGarbage(rq[i]) /\ rq[i].pc = "set" /\ rq'[i].pc = "done"
            /\ ~rq'[i].setErr) =>
            EnvelopeOf(store'[rq[i].cache_key], rq[i].origin.body)

C5_StoreFailuresAbsorbed ==
    \A i \in Slots :
        LET r == rq[i] IN
        /\ r.getErr => r.pc \in {"forward", "set", "done"}
        /\ (r.getErr /\ r.pc = "done") => r.calls = 1 /\ r.resp = OriginResult(r)
        /\ r.setErr =>
              r.pc = "done" /\ FetchSucceeded(r) /\ r.resp = Response(r.origin.body)

\* A request whose store read and store write both raised.
C5_Witness ==
    \E i \in Slots :
        rq[i].getErr /\ rq[i].setErr /\ rq[i].resp = Response(BodyAccent)

\* C6 (upstream error passthrough): on the synchronous path a status
\* s >= 400 fails the request with s and the origin's detail member when
\* the body is a JSON object that has one, else the raw text or the
\* default message; a network failure fails it with 503.
DetailAsStated(detail, body) ==
    LET j == RespJson(body) IN
    IF j.ok /\ j.doc.t = "obj" /\ DetailKey \in DOMAIN j.doc.f
    THEN detail = DetailJson(j.doc.f[DetailKey])
    ELSE detail \in {DetailText(RespText(body)), UpstreamDefault}

C6_ErrorPassthrough ==
    \A i \in Slots :
        LET r == rq[i] IN
        (r.pc = "done" /\ r.calls = 1) =>
            /\ r.origin.kind = "neterr" =>
                  r.resp.kind = "HTTPException" /\ r.resp.status_code = 503
            /\ (r.origin.kind = "resp" /\ r.origin.status >= 400) =>
                  /\ r.resp.kind = "HTTPException"
                  /\ r.resp.status_code = r.origin.status
                  /\ DetailAsStated(r.resp.detail, r.origin.body)

\* 404 with {"detail":"nf"} reaches the caller as 404 "nf".
C6_Witness ==
    \E i \in Slots :
        /\ rq[i].pc = "done"
        /\ rq[i].origin = OriginResponse(404, BodyDetail)
        /\ rq[i].resp = HTTPException(404, DetailJson(JStr(<<110, 102>>)))

\* C7 (key derivation): two calls of one endpoint get the same key when
\* their admitted query parameters agree, and different keys when they
\* differ in the value or the presence of a parameter.
SameQuery(e, a, b) == \A p \in Params(e) : a[p] = b[p]

C7_KeyDerivation ==
    kd.pc = "derived" =>
        /\ SameQuery(kd.e, kd.a, kd.b) => kd.ka = kd.kb
        /\ ~SameQuery(kd.e, kd.a, kd.b) => kd.ka # kd.kb

\* C8 (non-read rejection): a call with a method other than GET fails with
\* 405 and reads no key, writes no key, calls no origin, adds no refresh.
C8_NonReadRejected ==
    \A i \in Slots :
        LET r == rq[i] IN
        (r.pc # "idle" /\ r.method # "GET") =>
            /\ r.pc \in {"forward", "done"}
            /\ r.gets = 0 /\ r.sets = 0 /\ r.calls = 0
            /\ r.added = 0 /\ r.bg = "none" /\ r.bgcalls = 0
            /\ r.pc = "done" =>
                  r.resp = HTTPException(405, DetailFixed("Method not allowed"))

C8_Witness ==
    \E i \in Slots :
        /\ rq[i].method = "POST" /\ rq[i].pc = "done"
        /\ rq[i].resp.kind = "HTTPException" /\ rq[i].resp.status_code = 405

\* C9 (refresh success overwrites): a refresh that received a response with
\* a status below 400 goes on to write the entry, as the miss path does.
C9_RefreshStoresSuccess ==
    \A i \in Slots :
        LET r == rq[i] IN
        (r.bg = "done" /\ r.bgorigin.kind = "resp" /\ r.bgorigin.status < 400) =>
            r.bgend # "skipped"

\* C10 (refresh failure changes nothing): a step of a refresh that does not
\* end it with a write of a successful response leaves every key of the
\* store, the response of its request and every other request as they
\* were; a refresh calls the origin at most once and, once over, takes no
\* further step.
RefreshStep(i) ==
    rq[i].bg \in {"added", "set"} /\ rq'[i].bg \in {"set", "done"}
        /\ rq'[i].bg # rq[i].bg
RefreshWrote(r) ==
    r.bg = "done" /\ r.bgend = "stored"
        /\ r.bgorigin.kind = "resp" /\ r.bgorigin.status < 400

C10_Step ==
    \A i \in Slots :
        /\ (RefreshStep(i) /\ ~RefreshWrote(rq'[i])) =>
              /\ store' = store
              /\ rq'[i].resp = rq[i].resp /\ rq'[i].pc = rq[i].pc
              /\ \A j \in Slots \ {i} : rq'[j] = rq[j]
        /\ rq'[i].bgcalls <= 1
        /\ (rq[i].bg = "done" /\ rq'[i].pc # "idle") =>
              rq'[i].bg = "done" /\ rq'[i].bgcalls = rq[i].bgcalls

\* C10: every step keeps to it: a refresh that fails changes nothing.
C10_RefreshFailureAbsorbed == [][C10_Step]_vars

\* A refresh that fetched a 200 body and whose store write raised.
C10_Witness ==
    \E i \in Slots :
        LET r == rq[i] IN
        /\ r.bg = "done" /\ r.bgend = "failed"
        /\ r.bgorigin = OriginResponse(200, BodyAccent)
        /\ r.resp.kind = "Response"

\* C11 (all entries are whole raw envelopes): from an empty store, every
\* key is absent or holds an envelope with exactly the members payload (a
\* string), is_raw (true) and timestamp; every change of the store is one
\* set call that writes one key with such an envelope; and every request
\* that reads an entry is answered with a Response of the payload's bytes,
\* never with a page of it, whatever its page and limit.
WholeRawEnvelope(text) ==
    /\ text.kind = "json" /\ text.doc.t = "obj"
    /\ DOMAIN text.doc.f = {"payload", "is_raw", "timestamp"}
    /\ text.doc.f.payload.t = "str"
    /\ text.doc.f.is_raw = JTrue
    /\ text.doc.f.timestamp.t = "num"

\* The set calls request r has made, on the miss path and in its refresh.
SetCalls(r) == r.sets + (IF r.bgend \in {"stored"} THEN 1 ELSE 0)

C11_Entries ==
    /\ \A k \in Keys : store[k] = Absent \/ WholeRawEnvelope(store[k])
    /\ \A i \in Slots :
          LET r == rq[i] IN
          (r.gets = 1 /\ ~r.getErr /\ Cached(r.cached)) =>
              /\ WholeRawEnvelope(r.cached)
              /\ r.pc = "done"
              /\ r.resp = Response(Utf8Encode(r.cached.doc.f.payload.s))

C11_Step ==
    store' # store =>
        \E k \in Keys, i \in Slots :
            /\ \A h \in Keys \ {k} : store'[h] = store[h]
            /\ rq[i].cache_key = k
            /\ SetCalls(rq'[i]) = SetCalls(rq[i]) + 1
            /\ \A j \in Slots \ {i} : rq'[j] = rq[j]
            /\ WholeRawEnvelope(store'[k])

C11_WholeRawEnvelopes == [](C11_Entries) /\ [][C11_Step]_vars

\* A request for page 2 is served an entry the engine wrote.
C11_Witness ==
    \E i \in Slots :
        LET r == rq[i] IN
        /\ r.gets = 1 /\ ~r.getErr /\ Cached(r.cached) /\ r.page = 2
        /\ r.resp = Response(BodyAccent)

\* C12 (entries are never deleted): no step removes a key or leaves the
\* empty string where a key held a non-empty value; a step that changes the
\* value of a key is the store write of a request or of a refresh for that
\* key whose origin fetch returned a response that was not a failure, and
\* it writes a whole raw envelope of that response's body.
WriteOf(i, k) ==
    /\ rq[i].cache_key = k
    /\ \/ /\ rq[i].pc = "set" /\ rq'[i].pc = "done" /\ ~rq'[i].setErr
          /\ FetchSucceeded(rq[i])
          /\ EnvelopeOf(store'[k], rq[i].origin.body)
       \/ /\ rq[i].bg = "set" /\ rq'[i].bgend = "stored"
          /\ rq[i].bgorigin.kind = "resp" /\ rq[i].bgorigin.status < 400
          /\ EnvelopeOf(store'[k], rq[i].bgorigin.body)

C12_Step ==
    \A k \in Keys :
        /\ store[k] # Absent => store'[k] # Absent
        /\ Cached(store[k]) => Cached(store'[k])
        /\ store'[k] # store[k] =>
              /\ WholeRawEnvelope(store'[k])
              /\ \E i \in Slots : WriteOf(i, k)

C12_NeverDeleted == [][C12_Step]_vars

\* A request was served an entry and its refresh has overwritten it.
C12_Witness ==
    \E i \in Slots :
        LET r == rq[i] IN
        /\ HitOn(r) /\ r.bgend = "stored"
        /\ r.bgorigin = OriginResponse(200, BodyAccent)
        /\ EnvelopeOf(store[r.cache_key], BodyAccent)
        /\ r.cached # store[r.cache_key]

\* C13 (pagination purity): for a list, a page >= 1 and a limit >= 1,
\* paginate_data returns as data the items at the 0-based positions
\* (page-1)*limit up to but not including (page-1)*limit + limit that the
\* list has (none when the first is past the end), as total the length of
\* the list, the page and limit it was given, and as total_pages the least
\* n with n * limit >= total (0 for the empty list); the list is unchanged.
ExpectedData(items, page, limit) ==
    LET start == (page - 1) * limit
        n == Cardinality({j \in start..(start + limit - 1) : j < Len(items)})
    IN  [j \in 1..n |-> items[start + j]]

CeilDiv(total, limit) ==
    CHOOSE n \in 0..total : n * limit >= total /\ (n = 0 \/ (n - 1) * limit < total)

C13_PaginationPurity ==
    pg.pc = "returned" =>
        /\ pg.result.data = ExpectedData(pg.given, pg.page, pg.limit)
        /\ pg.result.total = Len(pg.given)
        /\ pg.result.page = pg.page /\ pg.result.limit = pg.limit
        /\ pg.result.total_pages = CeilDiv(Len(pg.given), pg.limit)
        /\ (pg.given = <<>> => pg.result.total_pages = 0)
        /\ pg.items = pg.given

\* Page 2 with limit 3 of a list of 7 items: the items at positions 3 to 5,
\* total 7, 3 pages.
C13_Witness ==
    /\ pg.pc = "returned" /\ pg.page = 2 /\ pg.limit = 3
    /\ pg.given = <<JNum(1), JNum(2), JNum(3), JNum(4), JNum(5), JNum(6), JNum(7)>>
    /\ pg.result.data = <<JNum(4), JNum(5), JNum(6)>>
    /\ pg.result.total = 7 /\ pg.result.total_pages = 3

\* C14 (a malformed stored value is treated as absent): a GET request that
\* reads a non-empty value that is no envelope (no JSON object with a
\* payload member) does not answer with that value: it goes on to the
\* origin fetch, and its outcome is the origin's.
Malformed(text) ==
    Cached(text) /\ ~(text.kind = "json" /\ IsEnvelope(text.doc))

C14_MalformedIsMiss ==
    \A i \in Slots :
        LET r == rq[i] IN
        (r.gets = 1 /\ ~r.getErr /\ Malformed(r.cached)) =>
            /\ r.pc \in {"forward", "set", "done"}
            /\ r.pc = "done" => r.calls = 1 /\ r.resp = OriginResult(r)

\* C15 (the heartbeat never stops on failure): the registration loop is
\* always either making an attempt or waiting, and always has a next step;
\* every attempt, whatever its outcome, is one POST followed by a wait of
\* one period, and every wait is followed by the next attempt; no step of
\* the loop changes the cache store or a request.
C15_Running == hb.pc \in {"post", "sleep"} /\ ENABLED NextBeat

C15_Step ==
    /\ (hb.pc = "post" /\ hb' # hb) =>
          /\ hb'.pc = "sleep" /\ hb'.delay = Period
          /\ hb'.posts = Min(hb.posts + 1, MaxBeats)
    /\ (hb.pc = "sleep" /\ hb' # hb) =>
          hb'.pc = "post" /\ hb'.posts = hb.posts /\ hb'.delay = hb.delay
    /\ store' = store /\ prov' = prov /\ rq' = rq

C15_HeartbeatNeverStops ==
    /\ [](C15_Running)
    /\ [][C15_Step]_vars
    /\ ((hb.pc = "sleep") ~> (hb.pc = "post"))
    /\ ((hb.pc = "post") ~> (hb.pc = "sleep"))

\* After an attempt that raised and one that got a status other than 200,
\* the loop is at its next attempt.
C15_Witness ==
    hb.pc = "post" /\ hb.posts = 2 /\ hb.last \in {"raised", "status"}
        /\ hb.delay = Period

\* C16 (a failed miss leaves the cache unchanged): a request whose
\* synchronous origin fetch failed (a status >= 400 or a network failure)
\* is over with that failure as its response, has made no store write and
\* runs no refresh; the step in which the fetch fails changes no key, and
\* no later step of the request does.
FetchFailed(r) ==
    r.calls = 1 /\ (r.origin.kind = "neterr" \/ r.origin.status >= 400)

C16_Failed ==
    \A i \in Slots :
        LET r == rq[i] IN
        FetchFailed(r) =>
            /\ r.pc = "done"
            /\ r.resp.kind = "HTTPException" /\ r.resp = OriginResult(r)
            /\ r.sets = 0 /\ r.bgcalls = 0 /\ r.bg \in {"none", "dropped"}

C16_Step ==
    \A i \in Slots :
        (FetchFailed(rq'[i]) /\ rq'[i] # rq[i] /\ rq'[i].pc # "idle") =>
            store' = store

C16_FailedMissNoWrite == [](C16_Failed) /\ [][C16_Step]_vars

\* A miss whose fetch got a 500: the key is as absent as it was.
C16_Witness ==
    \E i \in Slots :
        LET r == rq[i] IN
        /\ MissFromEmpty(r) /\ r.pc = "done"
        /\ r.origin = OriginResponse(500, BodyAccent)
        /\ r.resp.kind = "HTTPException" /\ r.resp.status_code = 500
        /\ store[r.cache_key] = Absent

\* C17 (a refresh only accompanies a cache-served response): a request
\* has a refresh scheduled exactly when its response came from the cache;
\* a request answered by a synchronous origin fetch has none, and it and
\* its tasks call the origin once in all.
ServedFromCache(r) == r.resp.kind \in {"Response", "data"} /\ r.calls = 0
\* The refresh the request added is run by the framework once the response
\* is sent (it is not when the request ended in an exception).
Scheduled(r) == r.bg \in {"added", "set", "done"}

C17_RefreshIffCacheServed ==
    \A i \in Slots :
        LET r == rq[i] IN
        (r.pc = "done" /\ r.method = "GET") =>
            /\ Scheduled(r) <=> ServedFromCache(r)
            /\ r.calls = 1 => r.calls + r.bgcalls = 1

\* C18 (concurrent writers on one key): under every interleaving, an entry
\* the engine has written under K is the whole body of one origin response,
\* the one of the write applied last, and that response was fetched for
\* the path every request looking up K asks for; every change of the store
\* is one write of one request or refresh, to its own key only, of the
\* body its own fetch returned.
C18_Entry ==
    \A k \in Keys :
        prov[k] # NoProv =>
            /\ EnvelopeOf(store[k], prov[k].body)
            /\ \A i \in Slots : rq[i].cache_key = k => rq[i].path = prov[k].path

AppliedWrite(i, k) ==
    /\ rq[i].cache_key = k /\ prov'[k].path = rq[i].path
    /\ \/ /\ rq[i].pc = "set" /\ rq'[i].pc = "done" /\ ~rq'[i].setErr
          /\ rq[i].result_raw = rq[i].origin.body
          /\ prov'[k].body = rq[i].origin.body
       \/ /\ rq[i].bg = "set" /\ rq'[i].bgend = "stored"
          /\ rq[i].data_bytes = rq[i].bgorigin.body
          /\ prov'[k].body = rq[i].bgorigin.body

C18_Step ==
    \A k \in Keys :
        (store'[k] # store[k] \/ prov'[k] # prov[k]) =>
            /\ \E i \in Slots : AppliedWrite(i, k)
            /\ EnvelopeOf(store'[k], prov'[k].body)
            /\ \A h \in Keys \ {k} : store'[h] = store[h]

C18_ConcurrentWriters == [](C18_Entry) /\ [][C18_Step]_vars

\* Two refreshes of one key with different bodies: one has been applied,
\* the other's write is still to come.
C18_Witness ==
    \E i \in Slots, j \in Slots :
        /\ i # j /\ rq[i].cache_key = rq[j].cache_key
        /\ rq[i].bgend = "stored" /\ rq[i].bgorigin.body = BodyEmpty
        /\ rq[j].bg = "set" /\ rq[j].data_bytes = BodyAccent
        /\ EnvelopeOf(store[rq[i].cache_key], BodyEmpty)

\* C19 as stated (eventually fresh): once the origin answers every GET of
\* K's path with 200 and the same body B and the store is available, then,
\* requests for K arriving and tasks being run, from some moment on the
\* entry of K holds B and every request served the entry returns B; a
\* request served an entry returns its payload whatever its timestamp.
ServedEntry(r) == r.gets = 1 /\ ~r.getErr /\ Cached(r.cached) /\ r.pc = "done"

FreshNow ==
    /\ EnvelopeOf(store[FreshKey], env.body)
    /\ \A i \in Slots : ServedEntry(rq[i]) => rq[i].resp = Response(env.body)

NoAgeCheck ==
    \A i \in Slots :
        (HitOn(rq[i]) /\ EnvelopeRaw(rq[i].cached)) =>
            rq[i].resp = Response(Utf8Encode(rq[i].cached.doc.f.payload.s))

C19_Original == [](NoAgeCheck) /\ [](env.stable => <>[]FreshNow)

\* C19 as amended: the same, for a body B that decodes as UTF-8.
C19_EventuallyFresh ==
    [](NoAgeCheck) /\ []((env.stable /\ Utf8Valid(env.body)) => <>[]FreshNow)

\* The key started with another value, the origin has settled on the body
\* "é", the entry holds it and a request has been served it.
C19_Witness ==
    /\ env.stable /\ env.body = BodyAccent /\ FreshNow
    /\ \E i \in Slots : HitOn(rq[i]) /\ rq[i].resp = Response(BodyAccent)

=============================================================================
